---- MODULE Spec2Model ----
(***************************************************************************)
(* Bomb detonation on a terrain grid: Position/Direction (position.py),    *)
(* Token/Terrain (terrain.py) and detonate (bombs.py).                     *)
(*                                                                         *)
(* detonate is imperative code over a store made of the local dictionary   *)
(* `changes`, the Terrain object it was handed and a pending exception.    *)
(* Every function of the closure is an operator from store to store.       *)
(***************************************************************************)
EXTENDS Integers, Sequences, FiniteSets, TLC

VARIABLES
    terrain,    \* the Terrain object
    changes,    \* the dict the last detonate call returned, or update was handed
    pos,        \* the position the last detonate call was given
    before,     \* the cells of the terrain when the last call was entered
    detonated,  \* the centers _detonate was called on in the last detonate call
    deepest,    \* the deepest nesting of _detonate calls in the last detonate call
    writes,     \* the assignments to the dict made in the last detonate call
    exploded,   \* the centers detonated in the call whose dict was applied last
    cursor,     \* the iteration cursor of the Terrain object (_cursor_x, _cursor_y)
    yielded,    \* the pairs __next__ returned since the last __iter__
    inner,      \* the loop started over the terrain while the first one runs:
                \* its state and the pairs __next__ returned to it
    step,       \* the last get_new_position_from call: position, direction, result
    phase,      \* "idle", "returned", "raised", "applied", "update_raised",
                \* "iterating", "stopped", "IndexError", "stepped", "step_raised",
                \* "placed_bomb", "placed_wall", "detonated"
    calls       \* number of detonate calls made (of __iter__ calls in SpecIter,
                \* of get_new_position_from calls in SpecStep, of clicks in SpecLoop)

vars ==
    <<terrain, changes, pos, before, detonated, deepest, writes, cursor, yielded,
      step, exploded, inner, phase, calls>>

-----------------------------------------------------------------------------
(* Bounds of the explored inputs                                           *)

\* bombs.py:14
BOMB_SIZE == 3

\* number of bombs / walls a terrain holds at most
MaxBombs == 3
MaxWalls == 2
\* number of detonate calls made on one terrain in SpecAgain
MaxCalls == 2
\* nesting of _detonate calls the interpreter allows before RecursionError
MaxDepth == 8
\* number of entries of a mapping handed to Terrain.update in SpecUpdate
MaxEntries == 2
\* largest width and height of the terrains iterated in SpecIter
MaxSide == 2
\* largest coordinate, either sign, of the positions SpecStep starts from
MaxCoord == 2
\* number of mouse clicks the event loop of SpecLoop handles
MaxClicks == 3

\* terrain of Spec and SpecAgain: a row holds a cell beyond the blast radius
\* of a bomb in its first column
Width == BOMB_SIZE + 2
Height == BOMB_SIZE - 1

\* terrain of the open-field specification: the centre cell has BOMB_SIZE
\* cells on every side
OpenSide == 2 * BOMB_SIZE + 1

-----------------------------------------------------------------------------
(* position.py                                                             *)

Direction == {"NONE", "UP", "RIGHT", "DOWN", "LEFT"}

Cardinal == {"UP", "DOWN", "LEFT", "RIGHT"}

\* raised by get_new_position_from; no Position equals it
InvalidDirectionError == <<"InvalidDirectionError">>

\* variant of opposite: the direction is returned as it is
opposite_same(d) == d

\* position.py:24-33
opposite(d) ==
    CASE d = "UP" -> "DOWN"
      [] d = "DOWN" -> "UP"
      [] d = "RIGHT" -> "LEFT"
      [] d = "LEFT" -> "RIGHT"
      [] OTHER -> "NONE"

\* a Position is the pair <<x, y>>
get_new_position_from(p, direction) ==
    CASE direction = "UP" -> <<p[1], p[2] - 1>>
      [] direction = "RIGHT" -> <<p[1] + 1, p[2]>>
      [] direction = "DOWN" -> <<p[1], p[2] + 1>>
      [] direction = "LEFT" -> <<p[1] - 1, p[2]>>
      [] OTHER -> InvalidDirectionError

-----------------------------------------------------------------------------
(* terrain.py: tokens are compared by their display character              *)

EMPTY == " "
WALL == "#"
BOMB == "bomb"

\* bombs.py:25-42, key = mask (Down, Up, Right, Left), glyph named by its
\* Unicode box-drawing name; mask 0 is Token(' '), equal to Token.EMPTY
flame_tokens ==
    [mask \in 0..15 |->
        CASE mask = 0 -> EMPTY
          [] mask = 1 -> "LIGHT_LEFT"
          [] mask = 2 -> "LIGHT_RIGHT"
          [] mask = 3 -> "HORIZONTAL"
          [] mask = 4 -> "LIGHT_UP"
          [] mask = 5 -> "UP_AND_LEFT"
          [] mask = 6 -> "UP_AND_RIGHT"
          [] mask = 7 -> "UP_AND_HORIZONTAL"
          [] mask = 8 -> "LIGHT_DOWN"
          [] mask = 9 -> "DOWN_AND_LEFT"
          [] mask = 10 -> "DOWN_AND_RIGHT"
          [] mask = 11 -> "DOWN_AND_HORIZONTAL"
          [] mask = 12 -> "VERTICAL"
          [] mask = 13 -> "VERTICAL_AND_LEFT"
          [] mask = 14 -> "VERTICAL_AND_RIGHT"
          [] mask = 15 -> "VERTICAL_AND_HORIZONTAL"]

\* Token.FLAMES, terrain.py:74-90
FLAMES == {flame_tokens[mask] : mask \in 1..15}

TerrainError == "TerrainError"

\* a Terrain is [width, height, cells], cells the list _terrain (1-based here)
is_valid_position(t, p) ==
    ~(p[1] < 0 \/ p[1] >= t.width \/ p[2] < 0 \/ p[2] >= t.height)

\* Terrain._loc_to_index: the index, or the exception raised
loc_to_index(t, p) ==
    IF ~is_valid_position(t, p) THEN [raised |-> TerrainError, index |-> 0]
    ELSE [raised |-> "none", index |-> p[2] * t.width + p[1]]

\* Terrain.get_token: the token, or TerrainError raised by _loc_to_index
get_token(t, p) ==
    LET i == loc_to_index(t, p)
    IN IF i.raised # "none" THEN i.raised ELSE t.cells[i.index + 1]

Positions(t) == (0..(t.width - 1)) \X (0..(t.height - 1))

\* a dict is [keys, val]: its keys in insertion order and the value of each
Keys(d) == DOMAIN d.val

\* dict assignment d[k] = v: a new key goes last, an old one keeps its place
Put(d, k, v) ==
    [keys |-> IF k \in Keys(d) THEN d.keys ELSE Append(d.keys, k),
     val |-> [x \in Keys(d) \cup {k} |-> IF x = k THEN v ELSE d.val[x]]]

\* the empty dict
EmptyDict == [keys |-> <<>>, val |-> [x \in {} |-> EMPTY]]

-----------------------------------------------------------------------------
(* bombs.py: detonate                                                      *)

\* bombs.py:16-21
DIRECTION_TO_BIT(d) ==
    CASE d = "DOWN" -> 8
      [] d = "UP" -> 4
      [] d = "RIGHT" -> 2
      [] d = "LEFT" -> 1

Bit(mask, b) == (mask \div b) % 2

\* variant of OrBit: the bit is added, not or-ed
OrBit_plus(mask, b) == (mask + b) % 16

\* mask | b for a single bit b
OrBit(mask, b) == IF Bit(mask, b) = 1 THEN mask ELSE mask + b

\* variant of existing_mask_of: the mask recorded so far is forgotten
existing_mask_forgotten(token) == 0

\* bombs.py:60-64: the first key of flame_tokens whose token equals the one
\* recorded (0 when none does)
existing_mask_of(token) ==
    IF \E mask \in 0..15 : flame_tokens[mask] = token
    THEN CHOOSE mask \in 0..15 :
            /\ flame_tokens[mask] = token
            /\ \A m \in 0..(mask - 1) : flame_tokens[m] # token
    ELSE 0

\* variant of merge_directions: the new bits replace the mask
merge_directions_replaced(mask, directions) ==
    LET m1 == IF "DOWN" \in directions THEN DIRECTION_TO_BIT("DOWN") ELSE 0
        m2 == IF "UP" \in directions THEN m1 + DIRECTION_TO_BIT("UP") ELSE m1
        m3 == IF "RIGHT" \in directions THEN m2 + DIRECTION_TO_BIT("RIGHT") ELSE m2
    IN IF "LEFT" \in directions THEN m3 + DIRECTION_TO_BIT("LEFT") ELSE m3

\* bombs.py:67-68
merge_directions(mask, directions) ==
    LET m1 == IF "DOWN" \in directions THEN OrBit(mask, DIRECTION_TO_BIT("DOWN")) ELSE mask
        m2 == IF "UP" \in directions THEN OrBit(m1, DIRECTION_TO_BIT("UP")) ELSE m1
        m3 == IF "RIGHT" \in directions THEN OrBit(m2, DIRECTION_TO_BIT("RIGHT")) ELSE m2
    IN IF "LEFT" \in directions THEN OrBit(m3, DIRECTION_TO_BIT("LEFT")) ELSE m3

RecursionError == "RecursionError"

\* bombs.py:118
DetonateOrder == <<"UP", "DOWN", "LEFT", "RIGHT">>

\* the store of one detonate call: the local dict, the terrain, the pending
\* exception, the trace of the _detonate calls (the centers in call order,
\* the current nesting and the deepest nesting), the trace of the
\* assignments to the dict, and the list _detonate loops over
NewStore(t) ==
    [changes |-> EmptyDict, terrain |-> t, err |-> "none",
     log |-> <<>>, depth |-> 0, deepest |-> 0, writes |-> <<>>,
     order |-> DetonateOrder]

Absent == "absent"

\* changes[position] = token, traced with the directions merged and the
\* token the dict held at the position (Absent when it held none)
assign(s, position, directions, token) ==
    [s EXCEPT !.changes = Put(s.changes, position, token),
              !.writes = Append(s.writes,
                  [position |-> position, directions |-> directions,
                   old |-> IF position \in Keys(s.changes)
                           THEN s.changes.val[position] ELSE Absent,
                   new |-> token])]

add_flame(s, position, directions) ==
    IF ~is_valid_position(s.terrain, position) THEN s
    ELSE LET existing_mask ==
                 IF position \in Keys(s.changes)
                 THEN existing_mask_of(s.changes.val[position])
                 ELSE 0
         IN assign(s, position, directions,
                   flame_tokens[merge_directions(existing_mask, directions)])

\* variant of hit_wall: the wall cell is given a flame
hit_wall_flamed(s, current) == assign(s, current, {}, flame_tokens[15])

\* variant of hit_wall: the wall is also cleared in the terrain itself
hit_wall_in_place(s, current) ==
    [assign(s, current, {}, EMPTY) EXCEPT
              !.terrain.cells[loc_to_index(s.terrain, current).index + 1] = EMPTY]

\* variant of hit_wall: the wall is recorded as it is
hit_wall_kept(s, current) == assign(s, current, {}, WALL)

\* bombs.py:83-86
hit_wall(s, current) == assign(s, current, {}, EMPTY)

\* variant of chains: a bomb in the blast is treated like an empty cell
chains_never(s, token, current) == FALSE

\* variant of chains: the change-set is not consulted
chains_any_bomb(s, token, current) == token = BOMB

\* bombs.py:89
chains(s, token, current) == token = BOMB /\ current \notin Keys(s.changes)

\* variant of flame_directions: the tip is marked like a middle cell
flame_directions_no_tip(incoming, remaining_steps) ==
    {incoming, opposite(incoming)}

\* variant of flame_directions: the tip is marked with the direction of travel
flame_directions_outward(incoming, remaining_steps) ==
    IF remaining_steps = 1 THEN {incoming}
    ELSE {incoming, opposite(incoming)}

\* bombs.py:94-99
flame_directions(incoming, remaining_steps) ==
    IF remaining_steps = 1 THEN {opposite(incoming)}
    ELSE {incoming, opposite(incoming)}

\* variant of in_terrain: the next position is not checked
in_terrain_unchecked(s, next_pos) == TRUE

\* bombs.py:108 and 120
in_terrain(s, next_pos) == is_valid_position(s.terrain, next_pos)

\* variant of steps_left: the step is not counted
steps_left_uncounted(remaining_steps) == remaining_steps

\* bombs.py:109
steps_left(remaining_steps) == remaining_steps - 1

RECURSIVE _propagate(_, _, _, _)
RECURSIVE _detonate_from(_, _, _)

\* the frame of a _detonate call is entered
enter(s, center) ==
    [s EXCEPT !.log = Append(s.log, center),
              !.depth = s.depth + 1,
              !.deepest = IF s.depth + 1 > s.deepest THEN s.depth + 1 ELSE s.deepest]

\* bombs.py:111-121
_detonate(s, center) ==
    IF s.depth >= MaxDepth THEN [s EXCEPT !.err = RecursionError]
    ELSE LET done == _detonate_from(
                         add_flame(enter(s, center), center,
                                   {"UP", "DOWN", "LEFT", "RIGHT"}),
                         center, 1)
         IN [done EXCEPT !.depth = done.depth - 1]

\* bombs.py:118-121, the loop from its i-th direction on
_detonate_from(s, center, i) ==
    IF i > Len(s.order) \/ s.err # "none" THEN s
    ELSE LET direction == s.order[i]
             next_pos == get_new_position_from(center, direction)
             s1 == IF in_terrain(s, next_pos)
                   THEN _propagate(s, next_pos, direction, BOMB_SIZE)
                   ELSE s
         IN _detonate_from(s1, center, i + 1)

\* bombs.py:73-109
_propagate(s, current, incoming, remaining_steps) ==
    IF remaining_steps = 0 THEN s
    ELSE LET token == get_token(s.terrain, current)
         IN IF token = TerrainError THEN [s EXCEPT !.err = TerrainError]
            ELSE IF token = WALL THEN hit_wall(s, current)
            ELSE IF chains(s, token, current) THEN _detonate(s, current)
            ELSE LET s1 == add_flame(s, current, flame_directions(incoming, remaining_steps))
                     next_pos == get_new_position_from(current, incoming)
                 IN IF in_terrain(s1, next_pos)
                    THEN _propagate(s1, next_pos, incoming, steps_left(remaining_steps))
                    ELSE s1

\* variant of detonate: the token at the starting position is not compared
\* with the bomb token
detonate_any_token(p, t) ==
    LET s == NewStore(t)
        token == get_token(t, p)
    IN IF token = TerrainError THEN [s EXCEPT !.err = TerrainError]
       ELSE _detonate(s, p)

\* bombs.py:45-128: the store when detonate returns or raises
detonate(p, t) ==
    LET s == NewStore(t)
        token == get_token(t, p)
    IN IF token = TerrainError THEN [s EXCEPT !.err = TerrainError]
       ELSE IF token = BOMB THEN _detonate(s, p)
       ELSE s

\* variant of set_cell: the list is left as it is
set_cell_dropped(t, index, token) == t

\* terrain.py:195
set_cell(t, index, token) == [t EXCEPT !.cells[index + 1] = token]

RECURSIVE update_from(_, _, _)

\* variant of update_from: the last entry is not written
update_from_short(t, d, i) ==
    IF i >= Len(d.keys) THEN [terrain |-> t, err |-> "none"]
    ELSE LET idx == loc_to_index(t, d.keys[i])
         IN IF idx.raised # "none" THEN [terrain |-> t, err |-> idx.raised]
            ELSE update_from(set_cell(t, idx.index, d.val[d.keys[i]]), d, i + 1)

\* Terrain.update, terrain.py:192-195: the entries are written one by one in
\* the dict's order until one raises; [terrain, err], from the i-th entry on
update_from(t, d, i) ==
    IF i > Len(d.keys) THEN [terrain |-> t, err |-> "none"]
    ELSE LET idx == loc_to_index(t, d.keys[i])
         IN IF idx.raised # "none" THEN [terrain |-> t, err |-> idx.raised]
            ELSE update_from(set_cell(t, idx.index, d.val[d.keys[i]]), d, i + 1)

update(t, d) == update_from(t, d, 1)

-----------------------------------------------------------------------------
(* Inputs and operations                                                   *)

SubsetsUpTo(S, n) == {T \in SUBSET S : Cardinality(T) <= n}

Cells(w, h) == (0..(w - 1)) \X (0..(h - 1))

\* the terrain a terrain file of w columns and h rows gives
TerrainWith(w, h, bombs, walls) ==
    [width |-> w, height |-> h,
     cells |-> [i \in 1..(w * h) |->
                  LET p == <<(i - 1) % w, (i - 1) \div w>>
                  IN IF p \in bombs THEN BOMB
                     ELSE IF p \in walls THEN WALL ELSE EMPTY]]

\* positions handed to detonate: every cell and one position off each side
CallPositions(t) ==
    Positions(t) \cup {<<-1, 0>>, <<t.width, 0>>, <<0, -1>>, <<0, t.height>>}

NoPos == <<>>

\* no get_new_position_from call was made
NoStep == [from |-> NoPos, direction |-> "NONE", to |-> NoPos]

\* no second loop over the terrain was started
NoLoop == [state |-> "none", items |-> <<>>]

\* the cursor attributes do not exist before the first __iter__
NoCursor == [x |-> -1, y |-> -1]

Start(t) ==
    /\ terrain = t
    /\ changes = EmptyDict
    /\ pos = NoPos
    /\ before = t.cells
    /\ detonated = <<>>
    /\ deepest = 0
    /\ writes = <<>>
    /\ cursor = NoCursor
    /\ yielded = <<>>
    /\ inner = NoLoop
    /\ step = NoStep
    /\ exploded = <<>>
    /\ phase = "idle"
    /\ calls = 0

\* a terrain of Width x Height
InitBounded(maxBombs, maxWalls) ==
    \E bombs \in SubsetsUpTo(Cells(Width, Height), maxBombs) :
        \E walls \in SubsetsUpTo(Cells(Width, Height) \ bombs, maxWalls) :
            Start(TerrainWith(Width, Height, bombs, walls))

Init == InitBounded(MaxBombs, MaxWalls)

InitAgain == InitBounded(MaxBombs - 1, MaxWalls - 1)

\* an open field of OpenSide x OpenSide holding at most one bomb and at most
\* one other bomb or wall
InitOpen ==
    \E bombs \in {{}} \cup {{c} : c \in Cells(OpenSide, OpenSide)} :
        \E other \in {NoPos} \cup (Cells(OpenSide, OpenSide) \ bombs) :
            \E kind \in {BOMB, WALL} :
                Start(TerrainWith(OpenSide, OpenSide,
                        IF other # NoPos /\ kind = BOMB /\ bombs # {}
                        THEN bombs \cup {other} ELSE bombs,
                        IF other # NoPos /\ kind = WALL THEN {other} ELSE {}))

\* changes = detonate(p, terrain), bombs.py:218
Detonate(p) ==
    /\ LET s == detonate(p, terrain)
       IN /\ terrain' = s.terrain
          /\ changes' = IF s.err = "none" THEN s.changes ELSE changes
          /\ detonated' = s.log
          /\ deepest' = s.deepest
          /\ writes' = s.writes
          /\ phase' = IF s.err = "none" THEN "returned" ELSE "raised"
    /\ pos' = p
    /\ before' = terrain.cells
    /\ calls' = calls + 1
    /\ UNCHANGED <<cursor, yielded, step, exploded, inner>>

\* terrain.update(changes), bombs.py:220
Update ==
    /\ phase = "returned"
    /\ LET r == update(terrain, changes)
       IN /\ terrain' = r.terrain
          /\ phase' = IF r.err = "none" THEN "applied" ELSE "update_raised"
    /\ before' = terrain.cells
    /\ exploded' = detonated
    /\ UNCHANGED <<changes, pos, detonated, deepest, writes, cursor, yielded, step,
                   inner, calls>>

\* one detonation, then its change-set is applied
Next ==
    \/ \E p \in CallPositions(terrain) : phase = "idle" /\ Detonate(p)
    \/ Update

Spec == Init /\ [][Next]_vars

\* further detonations on the terrain a non-empty change-set was applied to
DetonateAgain(p) ==
    /\ phase = "applied"
    /\ Keys(changes) # {}
    /\ calls < MaxCalls
    /\ Detonate(p)

NextAgain ==
    \/ \E p \in CallPositions(terrain) : phase = "idle" /\ Detonate(p)
    \/ Update
    \/ \E p \in CallPositions(terrain) : DetonateAgain(p)

SpecAgain == InitAgain /\ [][NextAgain]_vars

SpecOpen == InitOpen /\ [][Next]_vars

\* one detonation on the terrains of SpecAgain
SpecOnce == InitAgain /\ [][Next]_vars

\* the dict literal {k1: t1, ..., kn: tn}, items the list of its pairs
DictOf(items) ==
    [keys |-> [i \in DOMAIN items |-> items[i][1]],
     val |-> [k \in {items[i][1] : i \in DOMAIN items} |->
                items[CHOOSE i \in DOMAIN items : items[i][1] = k][2]]]

\* the mappings of at most MaxEntries entries a caller can hand to update:
\* positions inside and outside the terrain, the markers of a terrain file
Mappings(t) ==
    {DictOf(items) :
        items \in {it \in UNION {[1..n -> CallPositions(t) \X {EMPTY, WALL, BOMB}] :
                                    n \in 1..MaxEntries} :
                      \A i \in DOMAIN it : \A j \in DOMAIN it :
                          it[i][1] = it[j][1] => i = j}}

\* a blank terrain of Width x Height, or one holding a single bomb
InitUpdate ==
    \E bombs \in {{}} \cup {{c} : c \in Cells(Width, Height)} :
        Start(TerrainWith(Width, Height, bombs, {}))

\* terrain.update(d), terrain.py:192-195
UpdateWith(d) ==
    /\ phase = "idle"
    /\ LET r == update(terrain, d)
       IN /\ terrain' = r.terrain
          /\ phase' = IF r.err = "none" THEN "applied" ELSE "update_raised"
    /\ changes' = d
    /\ before' = terrain.cells
    /\ UNCHANGED <<pos, detonated, deepest, writes, cursor, yielded, step, exploded,
                   inner, calls>>

NextUpdate == phase = "idle" /\ \E d \in Mappings(terrain) : UpdateWith(d)

SpecUpdate == InitUpdate /\ [][NextUpdate]_vars

IndexError == "IndexError"

\* a blank-dimension or file terrain of any width and height up to MaxSide,
\* zero included, holding any markers of a terrain file
InitIter ==
    \E w \in 0..MaxSide : \E h \in 0..MaxSide :
        \E cells \in [1..(w * h) -> {EMPTY, WALL, BOMB}] :
            Start([width |-> w, height |-> h, cells |-> cells])

\* Terrain.__iter__, terrain.py:197-200; a loop is started on a terrain not
\* iterated yet, or after a loop that finished or was abandoned
Iter ==
    /\ phase \in {"idle", "iterating", "stopped"}
    /\ calls < MaxCalls
    /\ cursor' = [x |-> 0, y |-> 0]
    /\ yielded' = <<>>
    /\ phase' = "iterating"
    /\ calls' = calls + 1
    /\ UNCHANGED <<terrain, changes, pos, before, detonated, deepest, writes, step,
                   exploded, inner>>

\* Terrain.__next__, terrain.py:202-218
NextItem ==
    /\ phase = "iterating"
    /\ LET loc == cursor.y * terrain.width + cursor.x
       IN IF cursor.y >= terrain.height
          THEN /\ phase' = "stopped"
               /\ UNCHANGED <<cursor, yielded>>
          ELSE IF loc >= Len(terrain.cells)
          THEN /\ phase' = IndexError
               /\ UNCHANGED <<cursor, yielded>>
          ELSE /\ yielded' = Append(yielded, <<<<cursor.x, cursor.y>>, terrain.cells[loc + 1]>>)
               /\ cursor' = IF cursor.x < terrain.width - 1
                             THEN [cursor EXCEPT !.x = cursor.x + 1]
                             ELSE [x |-> 0, y |-> cursor.y + 1]
               /\ phase' = "iterating"
    /\ UNCHANGED <<terrain, changes, pos, before, detonated, deepest, writes, step,
                   exploded, inner, calls>>

NextIter == Iter \/ NextItem

SpecIter == InitIter /\ [][NextIter]_vars

\* Terrain.__iter__, terrain.py:197-200, called for a second loop while the
\* first one has not finished: the object returns itself again
IterInner ==
    /\ phase = "iterating"
    /\ inner.state = "none"
    /\ cursor' = [x |-> 0, y |-> 0]
    /\ inner' = [state |-> "iterating", items |-> <<>>]
    /\ UNCHANGED <<terrain, changes, pos, before, detonated, deepest, writes, yielded,
                   step, exploded, phase, calls>>

\* Terrain.__next__, terrain.py:202-218, called by the second loop
NextInner ==
    /\ phase \in {"iterating", "stopped"}
    /\ inner.state = "iterating"
    /\ LET loc == cursor.y * terrain.width + cursor.x
       IN IF cursor.y >= terrain.height
          THEN /\ inner' = [inner EXCEPT !.state = "stopped"]
               /\ UNCHANGED <<cursor, phase>>
          ELSE IF loc >= Len(terrain.cells)
          THEN /\ phase' = IndexError
               /\ UNCHANGED <<cursor, inner>>
          ELSE /\ inner' = [inner EXCEPT !.items =
                               Append(@, <<<<cursor.x, cursor.y>>, terrain.cells[loc + 1]>>)]
               /\ cursor' = IF cursor.x < terrain.width - 1
                             THEN [cursor EXCEPT !.x = cursor.x + 1]
                             ELSE [x |-> 0, y |-> cursor.y + 1]
               /\ UNCHANGED phase
    /\ UNCHANGED <<terrain, changes, pos, before, detonated, deepest, writes, yielded,
                   step, exploded, calls>>

\* a loop over the terrain, and a second one started inside it
NextNested ==
    \/ phase = "idle" /\ Iter
    \/ NextItem
    \/ IterInner
    \/ NextInner

SpecNested == InitIter /\ [][NextNested]_vars

\* a Position of coordinates of either sign, beside the terrain Terrain()
InitStep ==
    /\ terrain = TerrainWith(0, 0, {}, {})
    /\ changes = EmptyDict
    /\ pos \in (-MaxCoord..MaxCoord) \X (-MaxCoord..MaxCoord)
    /\ before = terrain.cells
    /\ detonated = <<>>
    /\ deepest = 0
    /\ writes = <<>>
    /\ cursor = NoCursor
    /\ yielded = <<>>
    /\ inner = NoLoop
    /\ step = NoStep
    /\ exploded = <<>>
    /\ phase = "idle"
    /\ calls = 0

\* pos = pos.get_new_position_from(direction), position.py:73-84
Step(direction) ==
    /\ phase \in {"idle", "stepped"}
    /\ calls < MaxCalls
    /\ LET to == get_new_position_from(pos, direction)
       IN /\ step' = [from |-> pos, direction |-> direction, to |-> to]
          /\ pos' = IF to = InvalidDirectionError THEN pos ELSE to
          /\ phase' = IF to = InvalidDirectionError THEN "step_raised" ELSE "stepped"
    /\ calls' = calls + 1
    /\ UNCHANGED <<terrain, changes, before, detonated, deepest, writes, cursor, yielded,
                   exploded, inner>>

NextStep == \E direction \in Direction : Step(direction)

SpecStep == InitStep /\ [][NextStep]_vars

\* the cells of a terrain that hold a bomb
BombCells(t) == {q \in Positions(t) : get_token(t, q) = BOMB}

\* detonations of a bomb: terrains of at most MaxBombs bombs and a wall less
\* than MaxWalls
InitChain == InitBounded(MaxBombs, MaxWalls - 1)

NextChain == \E p \in BombCells(terrain) : phase = "idle" /\ Detonate(p)

SpecChain == InitChain /\ [][NextChain]_vars

\* terrain of the event loop: a bomb in a corner reaches every cell of its
\* row and of its column
LoopWidth == BOMB_SIZE
LoopHeight == BOMB_SIZE - 1

RECURSIVE items_from(_, _, _)

\* the pairs a loop over the terrain gets from __next__ (terrain.py:202-218)
\* from cursor c on, after the pairs acc: [items, cursor, err]
items_from(t, c, acc) ==
    IF c.y >= t.height THEN [items |-> acc, cursor |-> c, err |-> "none"]
    ELSE IF c.y * t.width + c.x >= Len(t.cells)
    THEN [items |-> acc, cursor |-> c, err |-> IndexError]
    ELSE items_from(t,
                    IF c.x < t.width - 1 THEN [c EXCEPT !.x = c.x + 1]
                    ELSE [x |-> 0, y |-> c.y + 1],
                    Append(acc, <<<<c.x, c.y>>, t.cells[c.y * t.width + c.x + 1]>>))

\* variant of clear_flames: no cell is reset
clear_flames_none(items) == EmptyDict

\* bombs.py:193, the dict {pos: Token.EMPTY for pos, _ in filter(...)}
clear_flames(items) ==
    LET flames == SelectSeq(items, LAMBDA item : item[2] \in FLAMES)
    IN DictOf([i \in DOMAIN flames |-> <<flames[i][1], EMPTY>>])

\* what one MOUSEBUTTONUP branch leaves: the terrain, the exception that
\* ended it, the cells detonate was handed, the store of the detonate call,
\* the cursor the loop over the terrain left
outcome(t, err, handed, store, cur) ==
    [terrain |-> t, err |-> err, handed |-> handed, store |-> store, cursor |-> cur]

\* the branch ends with the update r of the terrain the store s was made for
updated(r, s, cur) == outcome(r.terrain, r.err, s.terrain.cells, s, cur)

\* bombs.py:204-205 and 208-209, terrain.update({Position(x_pos, y_pos): token})
place(t, p, token, cur) ==
    updated(update(t, DictOf(<< <<p, token>> >>)), NewStore(t), cur)

\* bombs.py:218-220, terrain.update(changes) once detonate left the store s
apply_changes(s, cur) ==
    IF s.err # "none" THEN outcome(s.terrain, s.err, s.terrain.cells, s, cur)
    ELSE updated(update(s.terrain, s.changes), s, cur)

\* bombs.py:203-220, the action the keys held select
act(t, p, key, cur) ==
    IF key = "b" THEN place(t, p, BOMB, cur)
    ELSE IF key = "w" THEN place(t, p, WALL, cur)
    ELSE apply_changes(detonate(p, t), cur)

\* bombs.py:193-220, from the update r0 that resets the flames of t on
reset_then_act(r0, t, p, key, cur) ==
    IF r0.err # "none" THEN outcome(r0.terrain, r0.err, t.cells, NewStore(t), cur)
    ELSE act(r0.terrain, p, key, cur)

\* bombs.py:193-220, from the loop `it` of filter over the terrain on
listed_then_act(it, t, p, key) ==
    IF it.err # "none" THEN outcome(t, it.err, t.cells, NewStore(t), it.cursor)
    ELSE reset_then_act(update(t, clear_flames(it.items)), t, p, key, it.cursor)

\* bombs.py:190-225, the MOUSEBUTTONUP branch for a click on cell p with key
\* "b", "w" or none held
click(t, p, key) ==
    listed_then_act(items_from(t, [x |-> 0, y |-> 0], <<>>), t, p, key)

\* a terrain file of LoopWidth x LoopHeight: blank, or one bomb, wall or
\* flame marker in it
InitLoop ==
    \E q \in {NoPos} \cup Cells(LoopWidth, LoopHeight) :
        \E token \in {BOMB, WALL, flame_tokens[15]} :
            Start([width |-> LoopWidth, height |-> LoopHeight,
                   cells |-> [i \in 1..(LoopWidth * LoopHeight) |->
                                IF q = <<(i - 1) % LoopWidth, (i - 1) \div LoopWidth>>
                                THEN token ELSE EMPTY]])

\* one MOUSEBUTTONUP event of draw's loop, bombs.py:190-227
Click(p, key) ==
    /\ phase \in {"idle", "placed_bomb", "placed_wall", "detonated"}
    /\ calls < MaxClicks
    /\ LET c == click(terrain, p, key)
       IN /\ terrain' = c.terrain
          /\ before' = c.handed
          /\ cursor' = c.cursor
          /\ changes' = IF key = "none" /\ c.store.err = "none"
                        THEN c.store.changes ELSE changes
          /\ detonated' = c.store.log
          /\ deepest' = c.store.deepest
          /\ writes' = c.store.writes
          /\ phase' = IF c.err # "none" THEN "raised"
                      ELSE IF key = "b" THEN "placed_bomb"
                      ELSE IF key = "w" THEN "placed_wall"
                      ELSE "detonated"
    /\ pos' = p
    /\ exploded' = detonated
    /\ calls' = calls + 1
    /\ UNCHANGED <<yielded, step, inner>>

NextLoop ==
    \E p \in Positions(terrain) : \E key \in {"b", "w", "none"} : Click(p, key)

SpecLoop == InitLoop /\ [][NextLoop]_vars

-----------------------------------------------------------------------------
(* Vocabulary of the properties: the terrain as it was when the call was   *)
(* entered, and the blast of one bomb stated on that terrain               *)

Grid == Positions(terrain)

Returned == phase = "returned"

ChangeKeys == Keys(changes)

TokenBefore(q) == before[q[2] * terrain.width + q[1] + 1]

\* the centers _detonate was called on
Detonated == {detonated[i] : i \in DOMAIN detonated}

\* the position k steps from c in direction d
Shift(c, d, k) ==
    CASE d = "UP" -> <<c[1], c[2] - k>>
      [] d = "DOWN" -> <<c[1], c[2] + k>>
      [] d = "LEFT" -> <<c[1] - k, c[2]>>
      [] d = "RIGHT" -> <<c[1] + k, c[2]>>

\* the direction pointing back from a ray's cell to its bomb
Back(d) ==
    CASE d = "UP" -> "DOWN"
      [] d = "DOWN" -> "UP"
      [] d = "LEFT" -> "RIGHT"
      [] d = "RIGHT" -> "LEFT"

\* the cell k steps from c in direction d is in the terrain, with no wall
\* strictly between it and c
Reaches(c, d, k) ==
    /\ Shift(c, d, k) \in Grid
    /\ \A j \in 1..(k - 1) : TokenBefore(Shift(c, d, j)) # WALL

\* the first wall of the ray from c in direction d is k steps away
FirstWall(c, d, k) ==
    /\ Reaches(c, d, k)
    /\ TokenBefore(Shift(c, d, k)) = WALL

\* q is a cell of the blast of a bomb at c: c itself or one of the 3 cells of
\* a ray, up to and including the first wall
InBlast(c, q) ==
    \/ q = c
    \/ \E d \in Cardinal : \E k \in 1..3 : Reaches(c, d, k) /\ Shift(c, d, k) = q

\* the directions the blast of a bomb at c marks at q
BlastDirs(c, q) ==
    IF q = c THEN Cardinal
    ELSE UNION {IF k = 3 THEN {Back(d)} ELSE {d, Back(d)} :
                  <<d, k>> \in {x \in Cardinal \X (1..3) :
                                  Reaches(c, x[1], x[2]) /\ Shift(c, x[1], x[2]) = q}}

MaskOfDirs(dirs) ==
    (IF "DOWN" \in dirs THEN 8 ELSE 0) + (IF "UP" \in dirs THEN 4 ELSE 0)
    + (IF "RIGHT" \in dirs THEN 2 ELSE 0) + (IF "LEFT" \in dirs THEN 1 ELSE 0)

\* the marker of q in the cell-wise OR of the blasts of the bombs of S
UnionToken(S, q) ==
    IF TokenBefore(q) = WALL THEN EMPTY
    ELSE flame_tokens[MaskOfDirs(UNION {BlastDirs(c, q) : c \in {b \in S : InBlast(b, q)}})]

Horizontal == {"LEFT", "RIGHT"}

-----------------------------------------------------------------------------
OpenAround(c) ==
    \A d \in Cardinal : \A k \in 1..3 :
        Shift(c, d, k) \in Grid /\ TokenBefore(Shift(c, d, k)) = EMPTY

C2_OpenFieldBlast ==
    (Returned /\ pos \in Grid /\ TokenBefore(pos) = BOMB /\ OpenAround(pos)) =>
        /\ Cardinality(ChangeKeys) = 13
        /\ ChangeKeys = {pos} \cup {Shift(pos, d, k) : d \in Cardinal, k \in 1..3}
        /\ changes.val[pos] = flame_tokens[15]
        /\ \A d \in Cardinal : \A k \in 1..2 :
              changes.val[Shift(pos, d, k)] =
                  IF d \in Horizontal THEN flame_tokens[1 + 2] ELSE flame_tokens[4 + 8]
        /\ \A d \in Cardinal :
              changes.val[Shift(pos, d, 3)] \in
                  IF d \in Horizontal THEN {flame_tokens[1], flame_tokens[2]}
                  ELSE {flame_tokens[4], flame_tokens[8]}

C2_Witness ==
    Returned /\ pos \in Grid /\ TokenBefore(pos) = BOMB /\ OpenAround(pos)
        /\ Cardinality(ChangeKeys) = 13

(* C3: the mapping is the cell-wise OR of the blasts of all the bombs      *)
(* detonated in the call: every cell of a blast is a key and carries the   *)
(* marker of the OR of the masks of the blasts that reach it.              *)
C3_UnionOfBlasts ==
    (Returned /\ pos \in Grid /\ TokenBefore(pos) = BOMB) =>
        /\ pos \in Detonated
        /\ ChangeKeys = {q \in Grid : \E c \in Detonated : InBlast(c, q)}
        /\ \A q \in ChangeKeys : changes.val[q] = UnionToken(Detonated, q)

\* two detonated bombs mark different directions at a cell that is neither a
\* bomb nor a wall
C3_Witness ==
    /\ Returned
    /\ \E a \in Detonated : \E b \in Detonated : \E q \in ChangeKeys :
          /\ a # b /\ InBlast(a, q) /\ InBlast(b, q)
          /\ TokenBefore(q) = EMPTY
          /\ ~(BlastDirs(a, q) \subseteq BlastDirs(b, q))
          /\ ~(BlastDirs(b, q) \subseteq BlastDirs(a, q))
          /\ changes.val[q] = flame_tokens[15]

(* C4: a wall never carries flame and stops the ray of every bomb: a wall  *)
(* of the mapping maps to empty; the first wall of a detonated bomb's ray  *)
(* is cleared and a cell behind it is a key only through another bomb; for *)
(* a single bomb the cells off the walled ray are as without the wall.     *)
BombCount == Cardinality({q \in Grid : TokenBefore(q) = BOMB})

WithoutWall(w) ==
    [terrain EXCEPT !.cells = [before EXCEPT ![w[2] * terrain.width + w[1] + 1] = EMPTY]]

C4_WallAbsorbs ==
    Returned =>
        /\ \A q \in ChangeKeys : TokenBefore(q) = WALL => changes.val[q] = EMPTY
        /\ \A c \in Detonated : \A d \in Cardinal : \A k \in 1..3 :
              FirstWall(c, d, k) =>
                  /\ Shift(c, d, k) \in ChangeKeys
                  /\ \A j \in (k + 1)..3 :
                        Shift(c, d, j) \in ChangeKeys =>
                            \E b \in Detonated \ {c} : InBlast(b, Shift(c, d, j))
        /\ \A d \in Cardinal : \A k \in 1..3 :
              (BombCount = 1 /\ Detonated = {pos} /\ FirstWall(pos, d, k)) =>
                  LET open == detonate(pos, WithoutWall(Shift(pos, d, k))).changes
                  IN \A q \in Grid \ {Shift(pos, d, j) : j \in 1..3} :
                        /\ q \in ChangeKeys <=> q \in Keys(open)
                        /\ q \in ChangeKeys => changes.val[q] = open.val[q]

\* a wall is the first wall of the rays of two detonated bombs, and a cell
\* behind it within 3 steps of one of them is no key
C4_Witness ==
    /\ Returned
    /\ \E a \in Detonated : \E b \in Detonated \ {a} :
          \E da \in Cardinal : \E db \in Cardinal \ {da} :
             \E ka \in 1..3 : \E kb \in 1..2 :
                /\ FirstWall(a, da, ka) /\ FirstWall(b, db, kb)
                /\ Shift(a, da, ka) = Shift(b, db, kb)
                /\ Shift(b, db, kb) \in ChangeKeys
                /\ Shift(b, db, kb + 1) \in Grid \ ChangeKeys

(* C5: detonate never mutates the grid: when it returns or raises, every   *)
(* cell holds the marker it held when the call was entered.                *)
C5_GridUntouched ==
    phase \in {"returned", "raised"} => terrain.cells = before

C5_Witness ==
    /\ Returned
    /\ Cardinality(Detonated) >= 2
    /\ \E q \in ChangeKeys : TokenBefore(q) = WALL
    /\ terrain.cells = before

(* C6: every key of the returned mapping is a valid position, so update    *)
(* never fails; after it each key reads back the mapping's marker and      *)
(* every other cell keeps its marker.                                      *)
C6_ApplyRoundTrip ==
    /\ phase # "update_raised"
    /\ Returned => ChangeKeys \subseteq Grid
    /\ phase = "applied" =>
          \A q \in Grid :
              get_token(terrain, q) =
                  IF q \in ChangeKeys THEN changes.val[q] ELSE TokenBefore(q)

C6_Witness ==
    /\ phase = "applied"
    /\ Cardinality(ChangeKeys) >= 3
    /\ \E q \in ChangeKeys : TokenBefore(q) = WALL /\ get_token(terrain, q) = EMPTY
    /\ \E q \in Grid \ ChangeKeys : TokenBefore(q) # EMPTY

(* C7: detonate never raises, whatever position it is given, a starting    *)
(* position outside the grid included.                                     *)
C7_NeverRaises == phase # "raised"

(* C8: a bomb on a corner or an edge detonates without error, no position  *)
(* outside the grid is a key, and each of its rays covers the cells up to  *)
(* the border.                                                             *)
C8_EdgeBlast ==
    /\ (phase \in {"returned", "raised"} /\ pos \in Grid) => Returned
    /\ Returned => ChangeKeys \subseteq Grid
    /\ (Returned /\ pos \in Grid /\ TokenBefore(pos) = BOMB) =>
          \A d \in Cardinal : \A k \in 1..3 :
              Reaches(pos, d, k) => Shift(pos, d, k) \in ChangeKeys

\* a corner bomb: two directions leave the grid at once, one ray is cut by
\* the border after its first cell
C8_Witness ==
    /\ Returned
    /\ pos = <<0, 0>> /\ TokenBefore(pos) = BOMB
    /\ Shift(pos, "DOWN", 1) \in ChangeKeys
    /\ Shift(pos, "DOWN", 2) \notin Grid
    /\ Shift(pos, "RIGHT", 3) \in ChangeKeys

(* C9, as stated: every entry of the mapping differs from the marker the   *)
(* grid holds at its position, also on a grid that already holds flames.   *)
C9_EveryEntryChanges ==
    Returned => \A q \in ChangeKeys : changes.val[q] # TokenBefore(q)

(* C9, amended: every entry at a position where the grid holds no flame    *)
(* marker differs from the marker the grid holds there.                    *)
C9_EntryChangesUnlessFlame ==
    Returned =>
        \A q \in ChangeKeys : TokenBefore(q) \notin FLAMES => changes.val[q] # TokenBefore(q)

\* a detonation on a grid holding flames, clearing a wall and lighting cells
C9_Witness ==
    /\ Returned
    /\ \E q \in Grid : TokenBefore(q) \in FLAMES
    /\ \E q \in ChangeKeys : TokenBefore(q) = WALL
    /\ \E q \in ChangeKeys : TokenBefore(q) = EMPTY
    /\ \E q \in ChangeKeys : TokenBefore(q) \in FLAMES

(* C10: every key is the cell of a detonated bomb or lies within 3 steps   *)
(* of one, in its row or column, with no wall strictly between.            *)
C10_KeysInsideBlast ==
    Returned => \A q \in ChangeKeys : \E c \in Detonated : InBlast(c, q)

\* a wall behind the first wall of a ray and a cell 4 steps from a bomb on a
\* clear row, neither of them a key
C10_Witness ==
    /\ Returned
    /\ \E c \in Detonated : \E d \in Cardinal : \E k \in 1..2 : \E j \in 2..3 :
          /\ k < j /\ FirstWall(c, d, k)
          /\ Shift(c, d, j) \in Grid /\ TokenBefore(Shift(c, d, j)) = WALL
          /\ Shift(c, d, j) \notin ChangeKeys
    /\ \E c \in Detonated : \E d \in Cardinal :
          /\ Reaches(c, d, 4)
          /\ TokenBefore(Shift(c, d, 4)) = EMPTY
          /\ Shift(c, d, 4) \notin ChangeKeys

(* C11: detonate terminates: within one call every bomb cell is passed to  *)
(* _detonate at most once, so the nesting of _detonate calls never exceeds *)
(* the number of bombs of the grid and no call ends in RecursionError.     *)
C11_EachBombOnce ==
    (phase \in {"returned", "raised"} /\ pos \in Grid) =>
        /\ Returned
        /\ \A i \in DOMAIN detonated : \A j \in DOMAIN detonated :
              detonated[i] = detonated[j] => i = j
        /\ \A c \in Detonated : TokenBefore(c) = BOMB
        /\ deepest <= Len(detonated)
        /\ Len(detonated) <= BombCount

\* three bombs detonated in three nested calls, the first of them in the
\* blast of both others
C11_Witness ==
    /\ Returned
    /\ Len(detonated) = 3 /\ deepest = 3
    /\ InBlast(detonated[2], detonated[1])
    /\ InBlast(detonated[3], detonated[1])

\* the mask a flame marker stands for
MaskOfToken(token) == CHOOSE mask \in 0..15 : flame_tokens[mask] = token

HasBit(token, d) == Bit(MaskOfToken(token), MaskOfDirs({d})) = 1

\* q is the third cell of the ray of detonated bomb c in direction d, it held
\* no wall, and no other detonated bomb's blast reaches it
LoneTip(c, d) ==
    /\ Reaches(c, d, 3)
    /\ TokenBefore(Shift(c, d, 3)) \notin {WALL, BOMB}
    /\ \A b \in Detonated \ {c} : ~InBlast(b, Shift(c, d, 3))

\* the cells at distance 1 and 2 of a ray carry the bit of the direction of
\* travel and its opposite
MiddleCells ==
    \A c \in Detonated : \A d \in Cardinal : \A k \in 1..2 :
        (Reaches(c, d, k) /\ TokenBefore(Shift(c, d, k)) # WALL) =>
            /\ HasBit(changes.val[Shift(c, d, k)], d)
            /\ HasBit(changes.val[Shift(c, d, k)], Back(d))

(* C12, as stated: the tip of a ray reached by no other blast carries only *)
(* the bit of the direction the flame travels in (UP for the ray going up),*)
(* the cells at distance 1 and 2 carry that bit and its opposite.          *)
C12_TipOutward ==
    Returned =>
        /\ \A c \in Detonated : \A d \in Cardinal :
              LoneTip(c, d) => changes.val[Shift(c, d, 3)] = flame_tokens[MaskOfDirs({d})]
        /\ MiddleCells

(* C12, amended: the tip of a ray reached by no other blast carries only   *)
(* the bit of the direction pointing back to the bomb (DOWN for the ray    *)
(* going up, LEFT for the ray going right); the cells at distance 1 and 2  *)
(* carry that bit and its opposite.                                        *)
C12_TipPointsBack ==
    Returned =>
        /\ \A c \in Detonated : \A d \in Cardinal :
              LoneTip(c, d) =>
                  changes.val[Shift(c, d, 3)] = flame_tokens[MaskOfDirs({Back(d)})]
        /\ MiddleCells

\* two bombs detonated; the first has lone tips going up and right, and its
\* left tip is reached by the second bomb's blast
C12_Witness ==
    /\ Returned
    /\ Cardinality(Detonated) = 2
    /\ LoneTip(pos, "UP") /\ LoneTip(pos, "RIGHT")
    /\ Reaches(pos, "LEFT", 3) /\ ~LoneTip(pos, "LEFT")
    /\ changes.val[Shift(pos, "UP", 3)] = "LIGHT_DOWN"
    /\ changes.val[Shift(pos, "RIGHT", 3)] = "LIGHT_LEFT"

(* C13: every bit set in the mask of a flame marker of the returned mapping *)
(* names a neighbour that is inside the grid and holds a flame marker in   *)
(* the mapping too, also on rays cut short by a wall or the grid border.   *)
C13_MaskNamesFlameNeighbours ==
    Returned =>
        \A p \in ChangeKeys : \A d \in Cardinal :
            (changes.val[p] \in FLAMES /\ HasBit(changes.val[p], d)) =>
                /\ Shift(p, d, 1) \in Grid
                /\ Shift(p, d, 1) \in ChangeKeys
                /\ changes.val[Shift(p, d, 1)] \in FLAMES

\* the token add_flame leaves at p when the dict held `token` there
Merged(p, token, directions) ==
    LET s0 == NewStore(terrain)
        s1 == IF token = Absent THEN s0
              ELSE [s0 EXCEPT !.changes = Put(EmptyDict, p, token)]
    IN add_flame(s1, p, directions).changes.val[p]

\* the token the dict held at p before the i-th assignment of the call
HeldBefore(p, i) ==
    LET earlier == {j \in 1..(i - 1) : writes[j].position = p}
    IN IF earlier = {} THEN Absent
       ELSE writes[CHOOSE j \in earlier : \A k \in earlier : k <= j].new

(* C14: add_flame sets the cell's mask to the union of the mask it held and *)
(* the new direction bits; merging the same directions again changes        *)
(* nothing, two direction sets merge to the same marker in either order,    *)
(* and no assignment of a detonation takes a bit away from a cell.          *)
C14_MergeIsUnion ==
    \A i \in DOMAIN writes :
        LET w == writes[i]
        IN /\ w.old = HeldBefore(w.position, i)
           /\ \A d \in Cardinal :
                 (w.old # Absent /\ HasBit(w.old, d)) => HasBit(w.new, d)
           /\ w.directions # {} =>
                 /\ \A d \in Cardinal :
                       HasBit(w.new, d) <=>
                           (d \in w.directions \/ (w.old # Absent /\ HasBit(w.old, d)))
                 /\ w.new = Merged(w.position, w.old, w.directions)
                 /\ Merged(w.position, w.new, w.directions) = w.new
                 /\ \A other \in SUBSET Cardinal :
                       Merged(w.position, Merged(w.position, w.old, other), w.directions)
                           = Merged(w.position, w.new, other)

\* a call that cleared a wall, merged into a cell the directions it already
\* held, and widened the mask of a cell
C14_Witness ==
    /\ Returned
    /\ \E i \in DOMAIN writes : writes[i].directions = {} /\ writes[i].new = EMPTY
    /\ \E i \in DOMAIN writes :
           /\ writes[i].old \in FLAMES
           /\ writes[i].new = writes[i].old
    /\ \E i \in DOMAIN writes :
           /\ writes[i].old \in FLAMES
           /\ writes[i].new # writes[i].old

(* C15: update applies every entry of the mapping or none; a mapping with a *)
(* position outside the grid makes it fail and leaves every cell of the    *)
(* grid as it was.                                                         *)
C15_UpdateAtomic ==
    /\ (phase \in {"applied", "update_raised"} /\ ~(ChangeKeys \subseteq Grid)) =>
          phase = "update_raised"
    /\ phase = "update_raised" => terrain.cells = before
    /\ phase = "applied" =>
          \A q \in ChangeKeys : get_token(terrain, q) = changes.val[q]

\* the i-th cell of a terrain in row-major order
RowMajor(i) == <<(i - 1) % terrain.width, (i - 1) \div terrain.width>>

\* the pairs yielded so far are the first cells in row-major order, each with
\* its marker, and a loop that stopped yielded width * height pairs
YieldsRowMajor ==
    /\ Len(yielded) <= terrain.width * terrain.height
    /\ \A i \in DOMAIN yielded :
          yielded[i] = <<RowMajor(i), get_token(terrain, RowMajor(i))>>
    /\ phase = "stopped" => Len(yielded) = terrain.width * terrain.height
    /\ (phase = "iterating" /\ Len(yielded) < terrain.width * terrain.height) =>
          <<cursor.x, cursor.y>> = RowMajor(Len(yielded) + 1)

(* C16: iterating a terrain of any width w and height h yields w * h pairs, *)
(* one per cell in row-major order from (0,0), each with the cell's marker, *)
(* then stops; an iteration started after a finished or abandoned one       *)
(* starts at (0,0) again.                                                   *)
C16_IterationRowMajor ==
    /\ phase # IndexError
    /\ phase \in {"iterating", "stopped"} => YieldsRowMajor

\* the same on the terrains that hold at least one column
C16_OnTerrainsWithColumns ==
    terrain.width >= 1 => C16_IterationRowMajor

\* a second loop that finished on a 2 x 2 terrain of three different markers
C16_Reached ==
    /\ phase = "stopped" /\ calls = 2
    /\ terrain.width = 2 /\ terrain.height = 2
    /\ Len(yielded) = 4
    /\ {yielded[i][2] : i \in 1..4} = {EMPTY, WALL, BOMB}

(* C17: opposite swaps UP with DOWN and LEFT with RIGHT, keeps NONE, and is *)
(* its own inverse; a step in a cardinal direction changes one coordinate  *)
(* by one (UP y-1, DOWN y+1, RIGHT x+1, LEFT x-1) and the step in the      *)
(* opposite direction leads back; a step in direction NONE raises          *)
(* InvalidDirectionError.                                                  *)
C17_OppositeAndStep ==
    /\ \A d \in Direction : opposite(opposite(d)) = d
    /\ opposite("NONE") = "NONE"
    /\ opposite("UP") = "DOWN" /\ opposite("DOWN") = "UP"
    /\ opposite("LEFT") = "RIGHT" /\ opposite("RIGHT") = "LEFT"
    /\ step # NoStep =>
          IF step.direction = "NONE"
          THEN step.to = InvalidDirectionError /\ phase = "step_raised"
          ELSE /\ phase = "stepped" /\ pos = step.to
               /\ step.to[1] - step.from[1] =
                     (CASE step.direction = "RIGHT" -> 1
                        [] step.direction = "LEFT" -> -1
                        [] OTHER -> 0)
               /\ step.to[2] - step.from[2] =
                     (CASE step.direction = "DOWN" -> 1
                        [] step.direction = "UP" -> -1
                        [] OTHER -> 0)
               /\ get_new_position_from(step.to, opposite(step.direction)) = step.from

\* a step up from the first row to a negative row, then a step that raised
C17_Witness ==
    /\ phase = "step_raised" /\ calls = 2
    /\ step.from = <<0, -1>>
    /\ step.to = InvalidDirectionError

\* y held a bomb within reach of a bomb at x: same row or column, at most
\* BOMB_SIZE cells away, no wall strictly between
Linked(x, y) ==
    /\ TokenBefore(y) = BOMB
    /\ \E d \in Cardinal : \E k \in 1..BOMB_SIZE :
          Shift(x, d, k) = y /\ Reaches(x, d, k)

RECURSIVE ChainFrom(_)

\* the smallest set of cells that holds S and every bomb linked to one of its
\* cells
ChainFrom(S) ==
    LET T == S \cup {y \in Grid : \E x \in S : Linked(x, y)}
    IN IF T = S THEN S ELSE ChainFrom(T)

(* C18: the bomb cells of the returned mapping are exactly the chain of the *)
(* starting bomb (the bombs linked to it directly or through other bombs), *)
(* they are the bombs that were detonated, and each maps to the cross.      *)
C18_ChainComplete ==
    (Returned /\ pos \in Grid /\ TokenBefore(pos) = BOMB) =>
        /\ {q \in ChangeKeys : TokenBefore(q) = BOMB} = ChainFrom({pos})
        /\ Detonated = ChainFrom({pos})
        /\ \A q \in ChainFrom({pos}) : changes.val[q] = flame_tokens[15]

\* three bombs went off, one of them out of the starting bomb's own reach
C18_Witness ==
    /\ Returned
    /\ Cardinality(Detonated) = 3
    /\ \E z \in Detonated : z # pos /\ ~Linked(pos, z)
    /\ \E q \in ChangeKeys : TokenBefore(q) = WALL

\* a bomb out of the chain stayed: it is no key of the mapping
C18_BombLeftOut ==
    /\ Returned
    /\ Cardinality(Detonated) = 2
    /\ \E b \in Grid \ ChangeKeys : TokenBefore(b) = BOMB

\* the lists holding each of the four directions once
Orders ==
    {order \in [1..4 -> Cardinal] : {order[i] : i \in 1..4} = Cardinal}

\* the store the algorithm leaves for the bomb at pos when _detonate loops
\* over `order`
DetonatedInOrder(order) ==
    _detonate([NewStore([terrain EXCEPT !.cells = before]) EXCEPT !.order = order],
              pos)

(* C19: for a bomb at the starting position, the algorithm run with any    *)
(* order of the four directions in _detonate's loop returns a mapping of   *)
(* the same keys and the same markers as the one the code's order returns. *)
C19_OrderIndependent ==
    (Returned /\ pos \in Grid /\ TokenBefore(pos) = BOMB) =>
        \A order \in Orders :
            LET s == DetonatedInOrder(order)
            IN s.err = "none" /\ s.changes.val = changes.val

\* three bombs that some order detonates in another sequence, a wall cleared,
\* the keys entering the mapping in another order
C19_Witness ==
    /\ Returned /\ Cardinality(Detonated) = 3
    /\ \E q \in ChangeKeys : TokenBefore(q) = WALL
    /\ \E order \in Orders :
          LET s == DetonatedInOrder(order)
          IN s.log # detonated /\ s.changes.keys # changes.keys

(* C20: once the mapping a detonation returned is applied, every cell it   *)
(* detonated holds the cross marker, not the bomb; the next detonate call  *)
(* at the starting cell or at a chained bomb's cell returns an empty       *)
(* mapping and detonates nothing.                                          *)
C20_NoSecondBlast ==
    /\ phase = "applied" =>
          \A c \in Detonated : get_token(terrain, c) = flame_tokens[15]
    /\ (phase \in {"returned", "raised"} /\ calls >= 2
            /\ \E i \in DOMAIN exploded : exploded[i] = pos) =>
          /\ Returned
          /\ ChangeKeys = {}
          /\ detonated = <<>>

\* the second call was made at a bomb the first call chained
C20_Witness ==
    /\ Returned /\ calls = 2
    /\ Len(exploded) = 2 /\ pos = exploded[2]
    /\ TokenBefore(pos) = flame_tokens[15]
    /\ ChangeKeys = {}

\* the cells of the terrain that hold a flame marker
FlameCells == {q \in Grid : get_token(terrain, q) \in FLAMES}

(* C21: over any sequence of clicks inside the grid, the grid handed to the *)
(* click's action holds no flame marker, no click raises, and after the    *)
(* click the flame markers of the grid are those of the mapping the        *)
(* click's detonation returned, none after a click that placed a bomb or a *)
(* wall.                                                                   *)
C21_FlamesOfLastClick ==
    calls >= 1 =>
        /\ phase \in {"placed_bomb", "placed_wall", "detonated"}
        /\ \A i \in DOMAIN before : before[i] \notin FLAMES
        /\ phase = "detonated" =>
              FlameCells = {q \in ChangeKeys : changes.val[q] \in FLAMES}
        /\ phase \in {"placed_bomb", "placed_wall"} => FlameCells = {}

\* the third click detonated a bomb after the second one had detonated
\* another: the cross of the second is gone, the flames are the third's
C21_Witness ==
    /\ phase = "detonated" /\ calls = MaxClicks
    /\ detonated # <<>> /\ exploded # <<>>
    /\ get_token(terrain, exploded[1]) = EMPTY
    /\ FlameCells # {}

\* a click that placed a wall on a grid that held flames
C21_PlacedAfterBlast ==
    /\ phase = "placed_wall" /\ exploded # <<>>
    /\ get_token(terrain, exploded[1]) = EMPTY

\* the pairs are the first cells of the terrain in row-major order, each
\* once and with its marker; a loop that stopped got all of them
EveryCellOnce(items, stopped) ==
    /\ Len(items) <= terrain.width * terrain.height
    /\ \A i \in DOMAIN items :
          items[i] = <<RowMajor(i), get_token(terrain, RowMajor(i))>>
    /\ stopped => Len(items) = terrain.width * terrain.height

(* C22: when a second loop over a terrain is started while the first one is *)
(* still running, each of the two loops gets every cell once, in row-major  *)
(* order, before it stops.                                                  *)
C22_IndependentIterations ==
    (phase \in {"iterating", "stopped"} /\ inner.state # "none") =>
        /\ EveryCellOnce(yielded, phase = "stopped")
        /\ EveryCellOnce(inner.items, inner.state = "stopped")

====
